---- MODULE Spec2Model ----
(***************************************************************************)
(* A model of the collate crate: the collation element stream and the     *)
(* sort key of src/lib.rs, and the CLDR tailoring rule parser of           *)
(* src/collation_rules.rs.                                                 *)
(*                                                                         *)
(* Characters are Unicode scalar values, written as their code points.    *)
(* Strings are sequences of code points.                                   *)
(***************************************************************************)
EXTENDS Integers, Sequences, FiniteSets, TLC

VARIABLES
    table,       \* CollationElementTable.data: key string -> element list
    input,       \* the &str handed to generate_sort_key
    normalized,  \* CollationElements.normalized: the NFD scalars not yet taken
    front,       \* the batch Flatten is currently draining
    key,         \* the SortKey under construction
    matched,     \* the local `s` of every call of next() that returned Some
    emitted,     \* every CollationElement the flattened stream has yielded
    pc,          \* position inside generate_sort_key
    v,           \* the slice of strings handed to sort_by_key
    keys,        \* generate_sort_key of every string of v
    sorted,      \* v after sort_by_key
    cpc,         \* position inside the sorting caller
    src,         \* what the rule text was written from
    text,        \* the rule text handed to the parser
    entry,       \* the parser function that was called on the text
    result       \* the IResult it returned

keyVars == <<input, normalized, front, key, matched, emitted, pc>>
cmpVars == <<v, keys, sorted, cpc>>
ruleVars == <<src, text, entry, result>>
vars == <<table, keyVars, cmpVars, ruleVars>>

(***************************************************************************)
(* Bounds                                                                  *)
(***************************************************************************)
MaxLen == 3      \* characters in the string of the element stream
CmpMaxLen == 1   \* characters in each generated string of a sorted slice
MaxRules == 2    \* rules written into one rule text
MaxSettings == 2   \* settings brackets in front of the rules of a text
MaxRaw == 4        \* characters in a text drawn from the rule alphabet
MaxOrderLen == 3   \* characters in a text parsed with every order of the alternatives
MaxLines == 3      \* lines of a table text
MaxLt == 5       \* consecutive < written in front of one rule
MaxCollations == 2 \* collation elements of one LDML document

(***************************************************************************)
(* Sequences                                                               *)
(***************************************************************************)
SeqsUpTo(S, n) == UNION {[1..k -> S] : k \in 0..n}

RECURSIVE Concat(_)
Concat(ss) == IF ss = <<>> THEN <<>> ELSE Head(ss) \o Concat(Tail(ss))

IsPrefix(p, q) == Len(p) <= Len(q) /\ SubSeq(q, 1, Len(p)) = p

(***************************************************************************)
(* Characters of the collation inputs                                      *)
(***************************************************************************)
LowerA == 97       \* a
UpperA == 65       \* A
LowerB == 98       \* b
UpperB == 66       \* B
LowerC == 99       \* c
UpperC == 67       \* C
LowerD == 100      \* d
AAcute == 225      \* a with acute, U+00E1
Acute == 769       \* combining acute accent, U+0301

\* The canonical decomposition of one character: U+00E1 decomposes to
\* U+0061 U+0301, the other characters of the model have none.
Decompose(c) == IF c = AAcute THEN <<LowerA, Acute>> ELSE <<c>>

\* s.nfd(): the decompositions of the characters of s, in order (a string of
\* the model never has two combining marks in a row, so no reordering).
RECURSIVE nfd(_)
nfd(s) == IF s = <<>> THEN <<>> ELSE Decompose(Head(s)) \o nfd(Tail(s))

(***************************************************************************)
(* CollationElement and CollationElementTable                              *)
(***************************************************************************)
CE(p, d, c) == [variable |-> FALSE, symbol |-> p, diacritic |-> d, case |-> c]

CollationElement(var, p, d, c) ==
    [variable |-> var, symbol |-> p, diacritic |-> d, case |-> c]

\* BTreeMap::get on the table: a table is a function on its keys.
HasKey(t, k) == k \in DOMAIN t

\* The rows a generated table may hold for each key; <<>> stands for
\* "no row for this key".  The row of b is always there.
RowChoices ==
    [k \in {<<LowerA>>, <<UpperA>>, <<LowerB>>, <<Acute>>, <<LowerA, Acute>>,
            <<LowerA, Acute, UpperA>>} |->
        CASE k = <<LowerA>> -> {<<>>, <<CE(1, 1, 1)>>, <<CE(1, 0, 1)>>}
          [] k = <<UpperA>> -> {<<>>, <<CE(1, 1, 2)>>, <<CE(1, 0, 2)>>}
          [] k = <<LowerB>> -> {<<CE(2, 1, 1)>>}
          [] k = <<Acute>> -> {<<>>, <<CE(0, 1, 1)>>, <<CE(0, 2, 0)>>}
          [] k = <<LowerA, Acute>> ->
                {<<>>, <<CE(2, 1, 1)>>, <<CE(1, 1, 1), CE(1, 2, 1)>>}
          [] OTHER -> {<<>>, <<CE(2, 1, 2)>>}]

\* A choice of rows as a table: the keys that were given a row.
TableOf(rows) ==
    [k \in {q \in DOMAIN rows : rows[q] # <<>>} |-> rows[k]]

Tables ==
    {TableOf(rows) : rows \in
        {f \in [DOMAIN RowChoices -> UNION {RowChoices[k] : k \in DOMAIN RowChoices}] :
            \A k \in DOMAIN RowChoices : f[k] \in RowChoices[k]}}

\* A table in the shape of the DUCET rows of the Latin letters a..d and of
\* the combining acute accent: the letters differ at level 1, a letter and
\* its capital at level 3, and the accent has weight 0 at level 1.
LatinTable ==
    [k \in {<<LowerA>>, <<UpperA>>, <<LowerB>>, <<UpperB>>, <<LowerC>>,
            <<UpperC>>, <<LowerD>>, <<Acute>>} |->
        CASE k = <<LowerA>> -> <<CE(10, 32, 2)>>
          [] k = <<UpperA>> -> <<CE(10, 32, 8)>>
          [] k = <<LowerB>> -> <<CE(11, 32, 2)>>
          [] k = <<UpperB>> -> <<CE(11, 32, 8)>>
          [] k = <<LowerC>> -> <<CE(12, 32, 2)>>
          [] k = <<UpperC>> -> <<CE(12, 32, 8)>>
          [] k = <<LowerD>> -> <<CE(13, 32, 2)>>
          [] OTHER -> <<CE(0, 36, 2)>>]

(***************************************************************************)
(* CollationElements::next                                                 *)
(***************************************************************************)
\* The while-let loop with next() in the place of peek(): the scalar that
\* does not extend the key is taken from the iterator all the same.
RECURSIVE Extend_take_peeked(_, _, _)
Extend_take_peeked(t, s, rest) ==
    IF rest = <<>> THEN [s |-> s, rest |-> rest]
    ELSE IF HasKey(t, Append(s, Head(rest)))
         THEN Extend_take_peeked(t, Append(s, Head(rest)), Tail(rest))
         ELSE [s |-> s, rest |-> Tail(rest)]

\* The while-let loop: s is the key matched so far, rest the scalars not
\* yet taken.  The peeked scalar is taken only when s with it is a key.
RECURSIVE Extend(_, _, _)
Extend(t, s, rest) ==
    IF rest = <<>> THEN [s |-> s, rest |-> rest]
    ELSE IF HasKey(t, Append(s, Head(rest)))
         THEN Extend(t, Append(s, Head(rest)), Tail(rest))
         ELSE [s |-> s, rest |-> rest]

\* next() with the early return on a missing entry replaced by "skip the
\* scalar and go on".
CollationElements_next_skip(t, rest) ==
    IF rest = <<>>
    THEN [some |-> FALSE, elem |-> <<>>, s |-> <<>>, rest |-> rest]
    ELSE IF ~HasKey(t, <<Head(rest)>>)
         THEN [some |-> TRUE, elem |-> <<>>, s |-> <<Head(rest)>>,
               rest |-> Tail(rest)]
         ELSE LET e == Extend(t, <<Head(rest)>>, Tail(rest))
              IN [some |-> TRUE, elem |-> t[e.s], s |-> e.s, rest |-> e.rest]

\* One call of next() on the remaining scalars: the item (some, elem), the
\* matched key s and the scalars left.  The first scalar is taken from the
\* iterator before the table is asked, so it is gone when the lookup fails.
CollationElements_next(t, rest) ==
    IF rest = <<>>
    THEN [some |-> FALSE, elem |-> <<>>, s |-> <<>>, rest |-> rest]
    ELSE IF ~HasKey(t, <<Head(rest)>>)
         THEN [some |-> FALSE, elem |-> <<>>, s |-> <<Head(rest)>>,
               rest |-> Tail(rest)]
         ELSE LET e == Extend(t, <<Head(rest)>>, Tail(rest))
              IN [some |-> TRUE, elem |-> t[e.s], s |-> e.s, rest |-> e.rest]

(***************************************************************************)
(* SortKey and generate_sort_key                                           *)
(***************************************************************************)
SortKey_new == [symbols |-> <<>>, diacritics |-> <<>>, cases |-> <<>>]

\* The loop body without the tests for zero: every weight is pushed.
PushElem_zeros(k, elem) ==
    [symbols |-> Append(k.symbols, elem.symbol),
     diacritics |-> Append(k.diacritics, elem.diacritic),
     cases |-> Append(k.cases, elem.case)]

\* The loop body with the three tests one after the other and no continue:
\* a level gets its weight whatever the levels before it hold.
PushElem_each_level(k, elem) ==
    [symbols |-> IF elem.symbol # 0 THEN Append(k.symbols, elem.symbol)
                 ELSE k.symbols,
     diacritics |-> IF elem.diacritic # 0 THEN Append(k.diacritics, elem.diacritic)
                    ELSE k.diacritics,
     cases |-> IF elem.case # 0 THEN Append(k.cases, elem.case) ELSE k.cases]

\* The body of the for loop of generate_sort_key for one element.
PushElem(k, elem) ==
    IF elem.symbol = 0 THEN k
    ELSE LET k1 == [k EXCEPT !.symbols = Append(@, elem.symbol)]
         IN IF elem.diacritic = 0 THEN k1
            ELSE LET k2 == [k1 EXCEPT !.diacritics = Append(@, elem.diacritic)]
                 IN IF elem.case = 0 THEN k2
                    ELSE [k2 EXCEPT !.cases = Append(@, elem.case)]

RECURSIVE PushAll(_, _)
PushAll(k, elems) ==
    IF elems = <<>> THEN k ELSE PushAll(PushElem(k, Head(elems)), Tail(elems))

\* The flattened stream of CollationElements::from(table, s): the elements
\* of the batches up to the first call of next() that returns None (Flatten
\* fuses the iterator, next() is not called again).
RECURSIVE Stream(_, _)
Stream(t, rest) ==
    LET r == CollationElements_next(t, rest)
    IN IF r.some THEN r.elem \o Stream(t, r.rest) ELSE <<>>

generate_sort_key(s, t) == PushAll(SortKey_new, Stream(t, nfd(s)))

(***************************************************************************)
(* Ordering of sort keys                                                   *)
(***************************************************************************)
\* A comparison of the common prefix only: the lengths are ignored.
RECURSIVE Vec_cmp_zip(_, _)
Vec_cmp_zip(a, b) ==
    IF a = <<>> \/ b = <<>> THEN "Equal"
    ELSE IF Head(a) < Head(b) THEN "Less"
    ELSE IF Head(a) > Head(b) THEN "Greater"
    ELSE Vec_cmp_zip(Tail(a), Tail(b))

\* Ord for Vec<u16>: lexicographic, a proper prefix is Less.
RECURSIVE Vec_cmp(_, _)
Vec_cmp(a, b) ==
    IF a = <<>> /\ b = <<>> THEN "Equal"
    ELSE IF a = <<>> THEN "Less"
    ELSE IF b = <<>> THEN "Greater"
    ELSE IF Head(a) < Head(b) THEN "Less"
    ELSE IF Head(a) > Head(b) THEN "Greater"
    ELSE Vec_cmp(Tail(a), Tail(b))

\* #[derive(Ord)] on SortKey: the fields in declaration order.
SortKey_cmp(k1, k2) ==
    IF Vec_cmp(k1.symbols, k2.symbols) # "Equal"
    THEN Vec_cmp(k1.symbols, k2.symbols)
    ELSE IF Vec_cmp(k1.diacritics, k2.diacritics) # "Equal"
         THEN Vec_cmp(k1.diacritics, k2.diacritics)
         ELSE Vec_cmp(k1.cases, k2.cases)

\* v.sort_by_key(|s| generate_sort_key(s, &table)): a stable sort.  ks[i] is
\* the key of xs[i]; an element goes behind every element whose key is not
\* Greater than its own.
RECURSIVE InsertByKey(_, _)
InsertByKey(done, x) ==
    IF done = <<>> THEN <<x>>
    ELSE IF SortKey_cmp(x.key, Head(done).key) = "Less"
         THEN <<x>> \o done
         ELSE <<Head(done)>> \o InsertByKey(Tail(done), x)

RECURSIVE SortPairs(_, _)
SortPairs(done, todo) ==
    IF todo = <<>> THEN done
    ELSE SortPairs(InsertByKey(done, Head(todo)), Tail(todo))

sort_by_key(xs, ks) ==
    LET ps == SortPairs(<<>>, [i \in 1..Len(xs) |-> [str |-> xs[i], key |-> ks[i]]])
    IN [i \in 1..Len(ps) |-> ps[i].str]

(***************************************************************************)
(* Characters of the rule syntax                                           *)
(***************************************************************************)
Tab == 9
Newline == 10
CarriageReturn == 13
Space == 32
Hash == 35          \* #
Amp == 38           \* &
Quote == 39         \* '
Star == 42          \* *
Minus == 45         \* -
Slash == 47         \* /
Lt == 60            \* <
Eq == 61            \* =
LBracket == 91      \* [
Backslash == 92
RBracket == 93      \* ]
Pipe == 124         \* |

BeforeTag == <<98, 101, 102, 111, 114, 101>>   \* "before"

\* char::is_whitespace: the code points with the White_Space property.
IsWhitespace(c) ==
    \/ c \in 9..13
    \/ c \in {32, 133, 160, 5760, 8232, 8233, 8239, 8287, 12288}
    \/ c \in 8192..8202

IsHexDigit(c) == c \in 48..57 \/ c \in 65..70 \/ c \in 97..102

HexValue(c) == IF c \in 48..57 THEN c - 48 ELSE IF c \in 65..70 THEN c - 55 ELSE c - 87

\* u32::from_str_radix(out, 16) on a run of hex digits.
RECURSIVE from_str_radix(_, _)
from_str_radix(acc, ds) ==
    IF ds = <<>> THEN acc ELSE from_str_radix(acc * 16 + HexValue(Head(ds)), Tail(ds))

\* char::from_u32: Some for a Unicode scalar value only.
IsScalar(u) == u \in 0..1114111 /\ u \notin 55296..57343

(***************************************************************************)
(* Parsers.  As in nom a combinator builds a parser from parsers; here a   *)
(* parser is a record that names its combinator and holds its parts, and   *)
(* Run(q, i) is the call q(i).                                             *)
(***************************************************************************)
\* IResult: Ok((rest, val)), Err(Err::Error(..)) or Err(Err::Incomplete(..)).
\* An Error is what alt, opt and the many combinators recover from; any
\* other Err passes through them to the caller.
Ok(i, x) == [ok |-> TRUE, rest |-> i, val |-> x, err |-> "none"]
Fail(i) == [ok |-> FALSE, rest |-> i, val |-> <<>>, err |-> "Error"]
Incomplete(i) == [ok |-> FALSE, rest |-> i, val |-> <<>>, err |-> "Incomplete"]

\* The Err a combinator returns at i when its part returned the Err r.
ErrOf(r, i) == IF r.err = "Error" THEN Fail(i) ELSE r

\* Option: None is <<>>, Some(x) is <<x>>.
None == <<>>
Some(x) == <<x>>

char(c) == [p |-> "char", c |-> c]
tag(t) == [p |-> "tag", t |-> t]
satisfy(pred) == [p |-> "satisfy", pred |-> pred]
one_of(cs) == [p |-> "one_of", cs |-> cs]
none_of(cs) == [p |-> "none_of", cs |-> cs]
anychar == [p |-> "anychar"]
multispace0 == [p |-> "multispace0"]
multispace1 == [p |-> "multispace1"]
space1 == [p |-> "space1"]
not_line_ending == [p |-> "not_line_ending"]
line_ending == [p |-> "line_ending"]
space0 == [p |-> "space0"]
alphanumeric1 == [p |-> "alphanumeric1"]
hex_digit1 == [p |-> "hex_digit1"]
is_not(cs) == [p |-> "is_not", cs |-> cs]
opt(q) == [p |-> "opt", q |-> q]
alt(qs) == [p |-> "alt", qs |-> qs]
tuple(qs) == [p |-> "tuple", qs |-> qs]
many0(q) == [p |-> "many0", q |-> q]
many1(q) == [p |-> "many1", q |-> q]
many_m_n(min, max, q) == [p |-> "many_m_n", min |-> min, max |-> max, q |-> q]
count(q, n) == [p |-> "count", q |-> q, n |-> n]
recognize(q) == [p |-> "recognize", q |-> q]
value(x, q) == [p |-> "value", v |-> x, q |-> q]
map(q, f) == [p |-> "map", q |-> q, f |-> f]
map_opt(q, f) == [p |-> "map_opt", q |-> q, f |-> f]
map_res(q, f) == [p |-> "map_res", q |-> q, f |-> f]
sortkey_of(q) == [p |-> "sortkey", q |-> q]
all_consuming(q) == [p |-> "all_consuming", q |-> q]
separated_list0(sep, q) == [p |-> "separated_list0", sep |-> sep, q |-> q]
separated_list1(sep, q) == [p |-> "separated_list1", sep |-> sep, q |-> q]
pair(a, b) == tuple(<<a, b>>)
preceded(a, b) == map(tuple(<<a, b>>), "second")
terminated(a, b) == map(tuple(<<a, b>>), "first")
delimited(a, b, c) == map(tuple(<<a, b, c>>), "second")
separated_pair(a, sep, b) == map(tuple(<<a, sep, b>>), "first_third")

\* SequenceElement
SeqChar(c) == [elem |-> "Char", c |-> c]
SeqRange(beg, end) == [elem |-> "Range", beg |-> beg, end |-> end]

\* Rule
SetContext(before, seq) ==
    [rule |-> "SetContext", before |-> before, sequence |-> seq]
Equal(seq) == [rule |-> "Equal", sequence |-> seq]
MultiEqual(mseq) == [rule |-> "MultiEqual", multisequence |-> mseq]
Increment(level, prefix, extension, seq) ==
    [rule |-> "Increment", level |-> level, prefix |-> prefix,
     extension |-> extension, sequence |-> seq]
MultiIncrement(level, mseq) ==
    [rule |-> "MultiIncrement", level |-> level, multisequence |-> mseq]

\* CollationRules
CollationRules(sets, rls) == [settings |-> sets, rules |-> rls]

\* is_reserved_char with the ranges in 33..41 and 43..47: * is not reserved.
is_reserved_char_but_star(c) ==
    \/ IsWhitespace(c)
    \/ (c >= 33 /\ c <= 41)
    \/ (c >= 43 /\ c <= 47)
    \/ (c >= 58 /\ c <= 64)
    \/ (c >= 91 /\ c <= 96)
    \/ (c >= 123 /\ c <= 126)

is_reserved_char(c) ==
    \/ IsWhitespace(c)
    \/ (c >= 33 /\ c <= 47)
    \/ (c >= 58 /\ c <= 64)
    \/ (c >= 91 /\ c <= 96)
    \/ (c >= 123 /\ c <= 126)

\* The closures handed to satisfy.
Pred(pred, c) ==
    CASE pred = "not_reserved" -> ~is_reserved_char(c)
      [] pred = "hex_digit" -> c < 255 /\ IsHexDigit(c)

\* The closures handed to map, and the parts of a tuple that preceded,
\* terminated, delimited and separated_pair keep.
Apply(f, x) ==
    CASE f = "first" -> x[1]
      [] f = "second" -> x[2]
      [] f = "first_third" -> <<x[1], x[3]>>
      [] f = "len" -> Len(x)
      [] f = "to_owned" -> x
      [] f = "into" -> x
      [] f = "is_star" -> x = <<Star>>
      [] f = "row" -> <<x[1], x[3]>>
      [] f = "insert" -> [line |-> "row", key |-> x[1], elems |-> x[2]]
      [] f = "CollationRules" -> CollationRules(x[1], x[2])
      [] f = "collect" -> Concat(x)
      [] f = "collect_chars" -> x
      [] f = "to_digit" -> x - 48
      [] f = "Range" -> SeqRange(x[1], x[2])
      [] f = "Char" -> SeqChar(x)
      [] f = "SetContext" -> SetContext(x[1], x[2])
      [] f = "Equal" -> Equal(x)
      [] f = "MultiEqual" -> MultiEqual(x)
      [] f = "Increment" -> Increment(x[1], x[3], x[4], x[2])
      [] f = "IncrementSwapped" -> Increment(x[1], x[4], x[3], x[2])
      [] f = "MultiIncrement" -> MultiIncrement(x[1], x[2])

\* The closure handed to map_opt in hex_digits:
\* u32::from_str_radix(out, 16).ok().and_then(|u| char::from_u32(u)).
ApplyOpt(f, x) ==
    IF IsScalar(from_str_radix(0, x)) THEN Some(from_str_radix(0, x)) ELSE None

\* The closure handed to map_res in the hex parsers of the table:
\* u16::from_str_radix(out, 16).
ApplyRes(f, x) ==
    IF from_str_radix(0, x) <= 65535 THEN Some(from_str_radix(0, x)) ELSE None

IsAlphanumeric(c) == c \in 48..57 \/ c \in 65..90 \/ c \in 97..122

\* The end of parse_sortkey and of sortkey, with r the (var, levels) that
\* the brackets held: an element of exactly three levels, or Incomplete.
\* This one takes the first three of three or more levels.
SortkeyLevels_truncate(r, i) ==
    IF Len(r.val[2]) >= 3
    THEN Ok(r.rest, CollationElement(r.val[1], r.val[2][1], r.val[2][2], r.val[2][3]))
    ELSE Incomplete(i)

SortkeyLevels(r, i) ==
    IF Len(r.val[2]) = 3
    THEN Ok(r.rest, CollationElement(r.val[1], r.val[2][1], r.val[2][2], r.val[2][3]))
    ELSE Incomplete(i)

\* A run of characters of the set cs at the front of i.
RECURSIVE RunOf(_, _)
RunOf(cs, i) ==
    IF i # <<>> /\ Head(i) \in cs
    THEN LET m == RunOf(cs, Tail(i)) IN Ok(m.rest, <<Head(i)>> \o m.val)
    ELSE Ok(i, <<>>)

\* not_line_ending: everything up to the next line ending or the end of the
\* input; a carriage return that no line feed follows is an error.
RECURSIVE NotLineEnding(_)
NotLineEnding(i) ==
    IF i = <<>> \/ Head(i) = Newline THEN Ok(i, <<>>)
    ELSE IF Head(i) = CarriageReturn
         THEN (IF Len(i) >= 2 /\ i[2] = Newline THEN Ok(i, <<>>) ELSE Fail(i))
         ELSE LET m == NotLineEnding(Tail(i))
              IN IF m.ok THEN Ok(m.rest, <<Head(i)>> \o m.val) ELSE Fail(i)

RECURSIVE Run(_, _)
RECURSIVE RunAlt(_, _)
RECURSIVE RunTuple(_, _)
RECURSIVE RunMany0(_, _)
RECURSIVE RunManyMN(_, _, _, _)
RECURSIVE RunCount(_, _, _)
RECURSIVE RunSepRest(_, _, _)

\* alt: the result of the first alternative that succeeds.
RunAlt(qs, i) ==
    IF qs = <<>> THEN Fail(i)
    ELSE LET r == Run(Head(qs), i)
         IN IF r.ok \/ r.err # "Error" THEN r ELSE RunAlt(Tail(qs), i)

\* tuple: the parsers one after the other, an error if one of them fails.
RunTuple(qs, i) ==
    IF qs = <<>> THEN Ok(i, <<>>)
    ELSE LET r == Run(Head(qs), i)
         IN IF ~r.ok THEN ErrOf(r, i)
            ELSE LET m == RunTuple(Tail(qs), r.rest)
                 IN IF m.ok THEN Ok(m.rest, <<r.val>> \o m.val) ELSE ErrOf(m, i)

\* many0: the items of q up to its first error; an item that consumes
\* nothing is an error of many0 itself.
RunMany0(q, i) ==
    LET r == Run(q, i)
    IN IF ~r.ok THEN (IF r.err = "Error" THEN Ok(i, <<>>) ELSE r)
       ELSE IF r.rest = i THEN Fail(i)
       ELSE LET m == RunMany0(q, r.rest)
            IN IF m.ok THEN Ok(m.rest, <<r.val>> \o m.val) ELSE ErrOf(m, i)

\* many_m_n: at most max items, an error below min items.
RunManyMN(min, max, q, i) ==
    IF max = 0 THEN Ok(i, <<>>)
    ELSE LET r == Run(q, i)
         IN IF ~r.ok
            THEN (IF r.err # "Error" THEN r
                  ELSE IF min > 0 THEN Fail(i) ELSE Ok(i, <<>>))
            ELSE IF r.rest = i THEN Fail(i)
            ELSE LET m == RunManyMN(IF min > 0 THEN min - 1 ELSE 0, max - 1, q, r.rest)
                 IN IF m.ok THEN Ok(m.rest, <<r.val>> \o m.val) ELSE ErrOf(m, i)

\* count: exactly n items.
RunCount(q, n, i) ==
    IF n = 0 THEN Ok(i, <<>>)
    ELSE LET r == Run(q, i)
         IN IF ~r.ok THEN ErrOf(r, i)
            ELSE LET m == RunCount(q, n - 1, r.rest)
                 IN IF m.ok THEN Ok(m.rest, <<r.val>> \o m.val) ELSE ErrOf(m, i)

\* separated_list0 and separated_list1 after an item: a separator and an
\* item, again and again.  An Error of either ends the list in front of
\* that separator; a separator that consumes nothing is an error of the
\* list.
RunSepRest(sep, q, i) ==
    LET r == Run(sep, i)
    IN IF ~r.ok THEN (IF r.err = "Error" THEN Ok(i, <<>>) ELSE r)
       ELSE IF Len(r.rest) = Len(i) THEN Fail(r.rest)
       ELSE LET e == Run(q, r.rest)
            IN IF ~e.ok THEN (IF e.err = "Error" THEN Ok(i, <<>>) ELSE e)
               ELSE LET m == RunSepRest(sep, q, e.rest)
                    IN IF m.ok THEN Ok(m.rest, <<e.val>> \o m.val) ELSE m

Run(q, i) ==
    CASE q.p = "char" ->
            IF i # <<>> /\ Head(i) = q.c THEN Ok(Tail(i), q.c) ELSE Fail(i)
      [] q.p = "tag" ->
            IF IsPrefix(q.t, i) THEN Ok(SubSeq(i, Len(q.t) + 1, Len(i)), q.t)
            ELSE Fail(i)
      [] q.p = "satisfy" ->
            IF i # <<>> /\ Pred(q.pred, Head(i)) THEN Ok(Tail(i), Head(i)) ELSE Fail(i)
      [] q.p = "one_of" ->
            IF i # <<>> /\ Head(i) \in q.cs THEN Ok(Tail(i), Head(i)) ELSE Fail(i)
      [] q.p = "none_of" ->
            IF i # <<>> /\ Head(i) \notin q.cs THEN Ok(Tail(i), Head(i)) ELSE Fail(i)
      [] q.p = "anychar" ->
            IF i # <<>> THEN Ok(Tail(i), Head(i)) ELSE Fail(i)
      [] q.p = "multispace0" -> RunOf({Space, Tab, CarriageReturn, Newline}, i)
      [] q.p = "multispace1" ->
            LET r == RunOf({Space, Tab, CarriageReturn, Newline}, i)
            IN IF r.val = <<>> THEN Fail(i) ELSE r
      [] q.p = "space1" ->
            LET r == RunOf({Space, Tab}, i) IN IF r.val = <<>> THEN Fail(i) ELSE r
      [] q.p = "not_line_ending" -> NotLineEnding(i)
      [] q.p = "line_ending" ->
            RunAlt(<<tag(<<Newline>>), tag(<<CarriageReturn, Newline>>)>>, i)
      [] q.p = "space0" -> RunOf({Space, Tab}, i)
      [] q.p = "alphanumeric1" ->
            IF i # <<>> /\ IsAlphanumeric(Head(i))
            THEN LET m == Run(alphanumeric1, Tail(i))
                 IN IF m.ok THEN Ok(m.rest, <<Head(i)>> \o m.val)
                    ELSE Ok(Tail(i), <<Head(i)>>)
            ELSE Fail(i)
      [] q.p = "hex_digit1" ->
            IF i # <<>> /\ IsHexDigit(Head(i))
            THEN LET m == Run(hex_digit1, Tail(i))
                 IN IF m.ok THEN Ok(m.rest, <<Head(i)>> \o m.val)
                    ELSE Ok(Tail(i), <<Head(i)>>)
            ELSE Fail(i)
      [] q.p = "is_not" ->
            IF i # <<>> /\ Head(i) \notin q.cs
            THEN LET m == Run(q, Tail(i))
                 IN IF m.ok THEN Ok(m.rest, <<Head(i)>> \o m.val)
                    ELSE Ok(Tail(i), <<Head(i)>>)
            ELSE Fail(i)
      [] q.p = "opt" ->
            LET r == Run(q.q, i)
            IN IF r.ok THEN Ok(r.rest, Some(r.val))
               ELSE IF r.err = "Error" THEN Ok(i, None) ELSE r
      [] q.p = "alt" -> RunAlt(q.qs, i)
      [] q.p = "tuple" -> RunTuple(q.qs, i)
      [] q.p = "many0" -> RunMany0(q.q, i)
      [] q.p = "many1" ->
            LET r == Run(q.q, i)
            IN IF ~r.ok THEN ErrOf(r, i)
               ELSE LET m == RunMany0(q.q, r.rest)
                    IN IF m.ok THEN Ok(m.rest, <<r.val>> \o m.val) ELSE ErrOf(m, i)
      [] q.p = "many_m_n" -> RunManyMN(q.min, q.max, q.q, i)
      [] q.p = "count" -> RunCount(q.q, q.n, i)
      [] q.p = "recognize" ->
            LET r == Run(q.q, i)
            IN IF r.ok THEN Ok(r.rest, SubSeq(i, 1, Len(i) - Len(r.rest)))
               ELSE ErrOf(r, i)
      [] q.p = "value" ->
            LET r == Run(q.q, i) IN IF r.ok THEN Ok(r.rest, q.v) ELSE ErrOf(r, i)
      [] q.p = "map" ->
            LET r == Run(q.q, i)
            IN IF r.ok THEN Ok(r.rest, Apply(q.f, r.val)) ELSE ErrOf(r, i)
      [] q.p = "map_opt" ->
            LET r == Run(q.q, i)
            IN IF ~r.ok THEN ErrOf(r, i)
               ELSE IF ApplyOpt(q.f, r.val) # None
               THEN Ok(r.rest, ApplyOpt(q.f, r.val)[1])
               ELSE Fail(i)
      [] q.p = "map_res" ->
            LET r == Run(q.q, i)
            IN IF ~r.ok THEN ErrOf(r, i)
               ELSE IF ApplyRes(q.f, r.val) # None
               THEN Ok(r.rest, ApplyRes(q.f, r.val)[1])
               ELSE Fail(i)
      [] q.p = "sortkey" ->
            LET r == Run(q.q, i) IN IF ~r.ok THEN r ELSE SortkeyLevels(r, i)
      [] q.p = "all_consuming" ->
            LET r == Run(q.q, i)
            IN IF ~r.ok THEN r
               ELSE IF r.rest = <<>> THEN r ELSE Fail(r.rest)
      [] q.p = "separated_list0" ->
            LET r == Run(q.q, i)
            IN IF ~r.ok THEN (IF r.err = "Error" THEN Ok(i, <<>>) ELSE r)
               ELSE LET m == RunSepRest(q.sep, q.q, r.rest)
                    IN IF m.ok THEN Ok(m.rest, <<r.val>> \o m.val) ELSE m
      [] q.p = "separated_list1" ->
            LET r == Run(q.q, i)
            IN IF ~r.ok THEN r
               ELSE LET m == RunSepRest(q.sep, q.q, r.rest)
                    IN IF m.ok THEN Ok(m.rest, <<r.val>> \o m.val) ELSE m

(***************************************************************************)
(* The grammar of collation_rules.rs                                       *)
(***************************************************************************)
\* comment without the comment: whitespace only.
comment_whitespace_only == delimited(multispace0, value(<<>>, multispace0), multispace0)

\* Matches whitespace, optionally with a comment.
comment ==
    delimited(multispace0,
              value(<<>>, opt(tuple(<<char(Hash), not_line_ending, line_ending>>))),
              multispace0)

legal_char == satisfy("not_reserved")

\* hex_digits with the count replaced by "as many digits as there are".
hex_digits_greedy(n) ==
    map_opt(recognize(many1(satisfy("hex_digit"))), "char_from_hex")

\* A specific number of hex digits parsed into a char.
hex_digits(n) ==
    map_opt(recognize(count(satisfy("hex_digit"), n)), "char_from_hex")

escaped_char ==
    preceded(char(Backslash),
             alt(<<preceded(char(85), hex_digits(8)),
                   preceded(char(117), hex_digits(4)),
                   value(7, char(97)),
                   value(8, char(98)),
                   value(9, char(116)),
                   value(10, char(110)),
                   value(11, char(118)),
                   value(12, char(102)),
                   value(13, char(114)),
                   value(27, char(101)),
                   value(34, char(34)),
                   value(39, char(39)),
                   value(63, char(63)),
                   value(92, char(92)),
                   anychar>>))

\* quoted_chars without escaped_char: a backslash is a character like others.
quoted_chars_raw ==
    map(delimited(char(Quote), many1(none_of({Quote})), char(Quote)),
        "collect_chars")

quoted_chars ==
    map(delimited(char(Quote),
                  many1(alt(<<none_of({Backslash, Quote}), escaped_char>>)),
                  char(Quote)),
        "collect_chars")

sequence ==
    map(many1(alt(<<map(recognize(many1(satisfy("not_reserved"))), "to_owned"),
                    quoted_chars>>)),
        "collect")

\* multisequence with the single character tried before the range.
multisequence_char_first ==
    many1(alt(<<map(legal_char, "Char"),
                map(separated_pair(legal_char, char(Minus), legal_char), "Range")>>))

multisequence ==
    many1(alt(<<map(separated_pair(legal_char, char(Minus), legal_char), "Range"),
                map(legal_char, "Char")>>))

\* The level parser with room for one more level.
level_lt_five == map(many_m_n(1, 5, char(Lt)), "len")

\* map(many_m_n(1, 4, char('<')), |s| s.len() as u8)
level_lt == map(many_m_n(1, 4, char(Lt)), "len")

multi_increment ==
    map(separated_pair(level_lt, char(Star), preceded(comment, multisequence)),
        "MultiIncrement")

\* increment with the / part in front of the | part.
increment_swapped ==
    map(tuple(<<level_lt,
                preceded(comment, sequence),
                opt(preceded(tuple(<<comment, char(Slash), comment>>), sequence)),
                opt(preceded(tuple(<<comment, char(Pipe), comment>>), sequence))>>),
        "IncrementSwapped")

increment ==
    map(tuple(<<level_lt,
                preceded(comment, sequence),
                opt(preceded(tuple(<<comment, char(Pipe), comment>>), sequence)),
                opt(preceded(tuple(<<comment, char(Slash), comment>>), sequence))>>),
        "Increment")

before ==
    delimited(char(LBracket),
              preceded(pair(tag(BeforeTag), multispace1),
                       map(one_of({49, 50, 51}), "to_digit")),
              char(RBracket))

set_context ==
    map(preceded(pair(char(Amp), comment),
                 pair(opt(terminated(before, comment)), sequence)),
        "SetContext")

multi_equal == map(preceded(pair(tag(<<Eq, Star>>), comment), multisequence), "MultiEqual")

equal == map(preceded(pair(char(Eq), comment), sequence), "Equal")

rule ==
    preceded(comment,
             alt(<<multi_increment, increment, multi_equal, equal, set_context>>))

rules == many0(rule)

identifier == recognize(many1(alt(<<alphanumeric1, tag(<<Minus>>)>>)))

\* [key value]
setting ==
    delimited(char(LBracket),
              separated_pair(map(identifier, "into"), space1, map(identifier, "into")),
              char(RBracket))

settings == separated_list0(comment, setting)

\* cldr without all_consuming: what is left over is not looked at.
cldr_partial ==
    map(delimited(comment, separated_pair(settings, comment, rules), comment),
        "CollationRules")

cldr ==
    map(all_consuming(delimited(comment,
                                separated_pair(settings, comment, rules),
                                comment)),
        "CollationRules")

(***************************************************************************)
(* The grammar of the collation element table: lib.rs, parse.rs and        *)
(* parse_cet.rs                                                            *)
(***************************************************************************)
Semicolon == 59
Dot == 46
HexChars == (48..57) \cup (65..70) \cup (97..102)    \* "0123456789abcdefABCDEF"
VersionTag == <<64, 118, 101, 114, 115, 105, 111, 110>>    \* "@version"
ImplicitWeightsTag ==                                       \* "@implicitweights"
    <<64, 105, 109, 112, 108, 105, 99, 105, 116, 119, 101, 105, 103, 104, 116, 115>>

\* What a line that is no row leaves behind: ().
Skip == [line |-> "skip"]

\* lib.rs
take_sep == value(<<>>, separated_pair(space0, char(Semicolon), space0))

parse_char == map_opt(recognize(many1(one_of(HexChars))), "char_from_hex")

parse_element == map(separated_list1(char(Space), parse_char), "collect_chars")

parse_variable == map(alt(<<tag(<<Star>>), tag(<<Dot>>)>>), "is_star")

parse_hex == map_res(recognize(many1(one_of(HexChars))), "u16_from_hex")

parse_sortkey ==
    sortkey_of(delimited(tag(<<LBracket>>),
                         tuple(<<parse_variable, separated_list1(tag(<<Dot>>), parse_hex)>>),
                         tag(<<RBracket>>)))

parse_row ==
    map(tuple(<<parse_element, take_sep, many1(parse_sortkey),
                tuple(<<many0(char(Space)), char(Hash), is_not({Newline}),
                        tag(<<Newline>>)>>)>>),
        "row")

\* The lines of a table, with row the parser of its rows: the alt of
\* CollationElementTable::from and of the two table functions.
LineOf(row) ==
    alt(<<value(Skip, tag(<<Newline>>)),
          value(Skip, tuple(<<space0, char(Hash), opt(is_not({Newline})), char(Newline)>>)),
          value(Skip, tuple(<<tag(VersionTag), is_not({Newline}), char(Newline)>>)),
          value(Skip, tuple(<<tag(ImplicitWeightsTag), is_not({Newline}), char(Newline)>>)),
          map(row, "insert")>>)

\* parse.rs
parse_rs_code_point == map_opt(recognize(many1(one_of(HexChars))), "char_from_hex")

parse_rs_element == map(separated_list1(char(Space), parse_rs_code_point), "collect_chars")

parse_rs_sep == value(<<>>, separated_pair(space0, char(Semicolon), space0))

parse_rs_variable == alt(<<value(TRUE, char(Star)), value(FALSE, char(Dot))>>)

parse_rs_hex == map_res(recognize(many1(one_of(HexChars))), "u16_from_hex")

parse_rs_sortkey ==
    sortkey_of(delimited(tag(<<LBracket>>),
                         tuple(<<parse_rs_variable,
                                 separated_list1(tag(<<Dot>>), parse_rs_hex)>>),
                         tag(<<RBracket>>)))

parse_rs_row ==
    map(tuple(<<parse_rs_element, parse_rs_sep, many1(parse_rs_sortkey),
                tuple(<<many0(char(Space)), char(Hash), is_not({Newline}),
                        tag(<<Newline>>)>>)>>),
        "row")

\* parse_cet.rs
parse_cet_comment == value(<<>>, tuple(<<char(Hash), not_line_ending, line_ending>>))

parse_cet_code_point == map_opt(hex_digit1, "char_from_hex")

parse_cet_element == map(separated_list1(char(Space), parse_cet_code_point), "collect_chars")

parse_cet_sep == value(<<>>, separated_pair(space0, char(Semicolon), space0))

parse_cet_variable == alt(<<value(TRUE, char(Star)), value(FALSE, char(Dot))>>)

parse_cet_hex == map_res(hex_digit1, "u16_from_hex")

parse_cet_sortkey ==
    sortkey_of(delimited(char(LBracket),
                         tuple(<<parse_cet_variable,
                                 separated_list1(char(Dot), parse_cet_hex)>>),
                         char(RBracket)))

parse_cet_row ==
    terminated(separated_pair(parse_cet_element, parse_cet_sep, many1(parse_cet_sortkey)),
               opt(parse_cet_comment))

\* BTreeMap::insert: the new value takes the place of an old one.  This one
\* keeps the old value.
Insert_keep_old(data, k, elems) ==
    [q \in DOMAIN data \cup {k} |-> IF q \in DOMAIN data THEN data[q] ELSE elems]

Insert(data, k, elems) ==
    [q \in DOMAIN data \cup {k} |-> IF q = k THEN elems ELSE data[q]]

\* many1(alt(..)) over the lines of i, the closure of the row alternative
\* inserting into data as the rows are parsed: its result and the data it
\* leaves.  first says that no line was parsed yet.
RECURSIVE ManyLines(_, _, _, _)
ManyLines(line, i, data, first) ==
    LET r == Run(line, i)
    IN IF ~r.ok
       THEN [res |-> IF r.err # "Error" THEN r
                     ELSE IF first THEN Fail(i) ELSE Ok(i, <<>>),
             data |-> data]
       ELSE IF r.rest = i THEN [res |-> Fail(i), data |-> data]
       ELSE ManyLines(line, r.rest,
                      IF r.val.line = "row" THEN Insert(data, r.val.key, r.val.elems)
                      ELSE data,
                      FALSE)

\* all_consuming(many1(alt(..)))(i) with the map data: the result, and the
\* map afterwards.
TableLines(row, i, data) ==
    LET m == ManyLines(LineOf(row), i, data, TRUE)
    IN [res |-> IF m.res.ok /\ m.res.rest # <<>> THEN Fail(m.res.rest) ELSE m.res,
        data |-> m.data]

EmptyMap == [k \in {} |-> <<>>]

\* CollationElementTable::from: the table, or the error alone.
CollationElementTable_from(i) ==
    LET m == TableLines(parse_row, i, EmptyMap)
    IN IF m.res.ok THEN Ok(m.res.rest, m.data) ELSE m.res

\* table of parse.rs, called with the map data.
parse_rs_table(i, data) == TableLines(parse_rs_row, i, data)

\* table of parse_cet.rs, called with the map data.
parse_cet_table(i, data) == TableLines(parse_cet_row, i, data)

(***************************************************************************)
(* Idle values of the variables a specification does not use              *)
(***************************************************************************)
KeyIdle ==
    /\ input = <<>> /\ normalized = <<>> /\ front = <<>>
    /\ key = SortKey_new /\ matched = <<>> /\ emitted = <<>> /\ pc = "idle"

CmpIdle == v = <<>> /\ keys = <<>> /\ sorted = <<>> /\ cpc = "idle"

NoSrc == [kind |-> "none"]

RuleIdle == src = NoSrc /\ text = <<>> /\ entry = "idle" /\ result = Fail(<<>>)

TableIdle == table = [k \in {} |-> <<>>]

(***************************************************************************)
(* generate_sort_key, one step at a time                                   *)
(***************************************************************************)
KeyChars == {LowerA, UpperA, AAcute, Acute, LowerB}

KeyInit ==
    /\ table \in Tables
    /\ input \in SeqsUpTo(KeyChars, MaxLen)
    /\ normalized = nfd(input)
    /\ front = <<>>
    /\ key = SortKey_new
    /\ matched = <<>>
    /\ emitted = <<>>
    /\ pc = "next"
    /\ CmpIdle
    /\ RuleIdle

\* Flatten asks the iterator for its next batch.
CallNext ==
    /\ pc = "next"
    /\ LET r == CollationElements_next(table, normalized)
       IN /\ normalized' = r.rest
          /\ front' = r.elem
          /\ matched' = IF r.some THEN Append(matched, r.s) ELSE matched
          /\ pc' = IF ~r.some THEN "done"
                   ELSE IF r.elem = <<>> THEN "next" ELSE "elems"
    /\ UNCHANGED <<table, input, key, emitted, cmpVars, ruleVars>>

\* The for loop takes the next element of the batch.
PushStep ==
    /\ pc = "elems"
    /\ key' = PushElem(key, Head(front))
    /\ emitted' = Append(emitted, Head(front))
    /\ front' = Tail(front)
    /\ pc' = IF Tail(front) = <<>> THEN "next" ELSE "elems"
    /\ UNCHANGED <<table, input, normalized, matched, cmpVars, ruleVars>>

KeyNext == CallNext \/ PushStep

SpecKey == KeyInit /\ [][KeyNext]_vars

(***************************************************************************)
(* Sorting a slice of strings by sort key                                  *)
(***************************************************************************)
CmpChars == {LowerA, UpperA, AAcute, LowerB}

\* The tables of the sorted slices: the generated tables without the
\* three-scalar key and without the accent row that has no third level.
CmpTables ==
    {t \in Tables :
        /\ ~HasKey(t, <<LowerA, Acute, UpperA>>)
        /\ HasKey(t, <<Acute>>) => t[<<Acute>>] # <<CE(0, 2, 0)>>}

\* The slices of the tests and of the scenarios.
Scenarios ==
    {<<<<LowerA>>, <<LowerB>>, <<UpperC>>, <<UpperA>>, <<LowerC>>, <<UpperB>>>>,
     <<<<LowerC, LowerA, LowerB>>, <<LowerD, LowerA, LowerB>>,
       <<UpperC, LowerA, LowerB>>, <<LowerC, AAcute, LowerB>>>>}

CmpInit ==
    /\ \/ /\ table \in CmpTables
          /\ v \in [1..3 -> SeqsUpTo(CmpChars, CmpMaxLen)]
       \/ /\ table = LatinTable
          /\ v \in Scenarios
    /\ keys = <<>>
    /\ sorted = <<>>
    /\ cpc = "keys"
    /\ KeyIdle
    /\ RuleIdle

\* sort_by_key computes the key of every string ...
MakeKeys ==
    /\ cpc = "keys"
    /\ keys' = [i \in 1..Len(v) |-> generate_sort_key(v[i], table)]
    /\ cpc' = "sort"
    /\ UNCHANGED <<table, v, sorted, keyVars, ruleVars>>

\* ... and orders the slice by them.
SortSlice ==
    /\ cpc = "sort"
    /\ sorted' = sort_by_key(v, keys)
    /\ cpc' = "done"
    /\ UNCHANGED <<table, v, keys, keyVars, ruleVars>>

CmpNext == MakeKeys \/ SortSlice

SpecCmp == CmpInit /\ [][CmpNext]_vars

(***************************************************************************)
(* Calling the rule parser                                                 *)
(***************************************************************************)
\* What one rule of a text is written from: the operator, the number of <,
\* the digit of a [before N] bracket, and whether a prefix and an extension
\* follow.  None stands for "not written".
RuleDescs ==
    {[op |-> "&", n |-> 0, before |-> b, prefix |-> FALSE, extension |-> FALSE] :
        b \in {None} \cup {Some(d) : d \in 0..4}}
    \cup {[op |-> o, n |-> 0, before |-> None, prefix |-> FALSE, extension |-> FALSE] :
        o \in {"=", "=*"}}
    \cup {[op |-> "<", n |-> k, before |-> None, prefix |-> p, extension |-> e] :
        k \in 1..MaxLt, p \in BOOLEAN, e \in BOOLEAN}
    \cup {[op |-> "<*", n |-> k, before |-> None, prefix |-> FALSE, extension |-> FALSE] :
        k \in 1..MaxLt}

\* The sequence of the idx-th rule of a text: a, b, c, ...
SeqOf(idx) == <<96 + idx>>
PrefixText == <<112, 113>>      \* pq
ExtensionText == <<120, 121>>   \* xy

RuleSrcs ==
    {[kind |-> "rules", ws |-> w, items |-> ds] :
        w \in {<<>>, <<Space>>}, ds \in SeqsUpTo(RuleDescs, MaxRules)}

\* The escapes of a quoted span: \u and \U with the code point written as 4
\* and 8 hex digits, in capitals or not, and \ with another character; trail
\* is what follows the escape inside the quotes.
EscapeSrcs ==
    {[kind |-> "escape", esc |-> "u", cp |-> c, upper |-> u, trail |-> t] :
        c \in {0, 291, 4369, 43981, 55295, 57344, 65535}, u \in BOOLEAN,
        t \in {<<>>, <<52, 53>>}}
    \cup {[kind |-> "escape", esc |-> "U", cp |-> c, upper |-> u, trail |-> t] :
        c \in {257, 65535, 74565, 703710, 1114111}, u \in BOOLEAN,
        t \in {<<>>, <<52, 53>>}}
    \cup {[kind |-> "escape", esc |-> "char", cp |-> c, upper |-> FALSE, trail |-> t] :
        c \in {97, 98, 116, 110, 118, 102, 114, 101, 34, 39, 63, 92,
               117, 85, 120, 60, 32, 233},
        t \in {<<>>, <<52, 53>>}}

Repeat(c, n) == [k \in 1..n |-> c]

HexDigit(d, upper) == IF d < 10 THEN 48 + d ELSE IF upper THEN 55 + d ELSE 87 + d

\* The number n written with w hex digits.
RECURSIVE ToHex(_, _, _)
ToHex(n, w, upper) ==
    IF w = 0 THEN <<>>
    ELSE Append(ToHex(n \div 16, w - 1, upper), HexDigit(n % 16, upper))

RenderRule(d, idx, ws) ==
    ws \o
    CASE d.op = "&" ->
            <<Amp>> \o ws
            \o (IF d.before = None THEN <<>>
                ELSE <<LBracket>> \o BeforeTag \o <<Space, 48 + d.before[1], RBracket>>
                     \o ws)
            \o SeqOf(idx)
      [] d.op = "=" -> <<Eq>> \o ws \o SeqOf(idx)
      [] d.op = "=*" -> <<Eq, Star>> \o ws \o SeqOf(idx)
      [] d.op = "<" ->
            Repeat(Lt, d.n) \o ws \o SeqOf(idx)
            \o (IF d.prefix THEN ws \o <<Pipe>> \o ws \o PrefixText ELSE <<>>)
            \o (IF d.extension THEN ws \o <<Slash>> \o ws \o ExtensionText ELSE <<>>)
      [] OTHER -> Repeat(Lt, d.n) \o <<Star>> \o ws \o SeqOf(idx)

RenderFrom(s, first) ==
    Concat([k \in 1..(Len(s.items) - first + 1) |->
                RenderRule(s.items[first + k - 1], first + k - 1, s.ws)])

Render(s) ==
    IF s.kind = "rules" THEN RenderFrom(s, 1)
    ELSE <<Quote, Backslash>>
         \o (IF s.esc = "u" THEN <<117>> \o ToHex(s.cp, 4, s.upper)
             ELSE IF s.esc = "U" THEN <<85>> \o ToHex(s.cp, 8, s.upper)
             ELSE <<s.cp>>)
         \o s.trail \o <<Quote>>

RuleInit ==
    /\ src \in RuleSrcs \cup EscapeSrcs
    /\ text = Render(src)
    /\ entry = "none"
    /\ result = Fail(<<>>)
    /\ TableIdle
    /\ KeyIdle
    /\ CmpIdle

Call(name, r) ==
    /\ entry = "none"
    /\ entry' = name
    /\ result' = r
    /\ UNCHANGED <<table, keyVars, cmpVars, src, text>>

CallRule == src.kind = "rules" /\ Call("rule", Run(rule, text))

CallRules == src.kind = "rules" /\ Call("rules", Run(rules, text))

CallSequence == src.kind = "escape" /\ Call("sequence", Run(sequence, text))

CallQuotedChars == src.kind = "escape" /\ Call("quoted_chars", Run(quoted_chars, text))

\* escaped_char is handed the text from the backslash on.
CallEscapedChar == src.kind = "escape" /\ Call("escaped_char", Run(escaped_char, Tail(text)))

RuleNext ==
    CallRule \/ CallRules \/ CallSequence \/ CallQuotedChars \/ CallEscapedChar

SpecRules == RuleInit /\ [][RuleNext]_vars

(***************************************************************************)
(* Calling cldr                                                            *)
(***************************************************************************)
\* The rules a whole rule text is written from.
CldrDescs ==
    {d \in RuleDescs :
        /\ d.before \in {None, Some(1)}
        /\ d.prefix = d.extension
        /\ (d.op = "<" => d.n = 2)
        /\ (d.op = "<*" => d.n = 1)}

\* The significant tokens of the idx-th rule of a text.
Tokens(d, idx) ==
    CASE d.op = "&" ->
            <<<<Amp>>>>
            \o (IF d.before = None THEN <<>>
                ELSE << <<LBracket>> \o BeforeTag \o <<Space, 48 + d.before[1], RBracket>> >>)
            \o <<SeqOf(idx)>>
      [] d.op = "=" -> <<<<Eq>>, SeqOf(idx)>>
      [] d.op = "=*" -> <<<<Eq, Star>>, SeqOf(idx)>>
      [] d.op = "<" ->
            <<Repeat(Lt, d.n), SeqOf(idx)>>
            \o (IF d.prefix THEN <<<<Pipe>>, PrefixText>> ELSE <<>>)
            \o (IF d.extension THEN <<<<Slash>>, ExtensionText>> ELSE <<>>)
      [] OTHER -> <<Repeat(Lt, d.n) \o <<Star>>, SeqOf(idx)>>

AllTokens(ds) == Concat([k \in 1..Len(ds) |-> Tokens(ds[k], k)])

\* What is written between two tokens: n is the number of line comments in
\* it, and multispace says that its whitespace is of space, tab, carriage
\* return and line feed only.
Gaps ==
    {[g |-> <<>>, n |-> 0, multispace |-> TRUE],
     [g |-> <<Space>>, n |-> 0, multispace |-> TRUE],
     [g |-> <<Space, CarriageReturn, Newline, Tab>>, n |-> 0, multispace |-> TRUE],
     [g |-> <<12>>, n |-> 0, multispace |-> FALSE],
     [g |-> <<Hash, 99, Newline>>, n |-> 1, multispace |-> TRUE],
     [g |-> <<Space, Hash, Space, 99, CarriageReturn, Newline, Tab>>,
      n |-> 1, multispace |-> TRUE],
     [g |-> <<Hash, 99, Newline, Hash, 100, Newline>>, n |-> 2, multispace |-> TRUE]}

\* The tokens with the gap g written at position pos (0 is in front of the
\* first token), or at every position.
JoinGaps(toks, g, all, pos) ==
    Concat([k \in 1..(2 * Len(toks) + 1) |->
                IF k % 2 = 0 THEN toks[k \div 2]
                ELSE IF all \/ pos = k \div 2 THEN g ELSE <<>>])

\* What is left over at the end of a text: nothing, an unrecognized
\* character, or a quoted span that is never closed.
Tails == {<<>>, <<33>>, <<RBracket>>, <<Quote, 98>>, <<Quote, 98, Backslash, Quote>>}

CldrSrcs ==
    {c \in [kind : {"cldr"}, items : SeqsUpTo(CldrDescs, MaxRules), gap : Gaps,
            all : BOOLEAN, pos : 0..(6 * MaxRules), tail : Tails] :
        /\ c.pos <= Len(AllTokens(c.items))
        /\ c.all => c.pos = 0
        /\ c.gap.g = <<>> => c.all
        /\ c.tail # <<>> => (c.all /\ c.gap.n = 0 /\ c.gap.multispace)}

\* The settings of a text: (name, value) pairs.
SettingChoices ==
    {<<<<97>>, <<98>>>>, <<<<97>>, <<99>>>>, <<<<100, Minus, 101>>, <<102, 49>>>>}

RenderSetting(st) == <<LBracket>> \o st[1] \o <<Space>> \o st[2] \o <<RBracket>>

\* Settings, each followed by after, and then the first rule or nothing.
SettingSrcs ==
    [kind : {"settings"}, sets : SeqsUpTo(SettingChoices, MaxSettings),
     after : {<<>>, <<Space>>, <<Hash, 99, Newline>>},
     first : {<<>>, <<Amp, 97>>}]

\* \u and \U escapes whose digits are not the code point of a scalar value.
BadEscapeSrcs ==
    {[kind |-> "badescape", esc |-> "u", cp |-> c, upper |-> u, trail |-> <<>>] :
        c \in {55296, 56320, 57343}, u \in BOOLEAN}
    \cup {[kind |-> "badescape", esc |-> "U", cp |-> c, upper |-> u, trail |-> <<>>] :
        c \in {55296, 1114112, 2147483647}, u \in BOOLEAN}

CldrText(s) ==
    CASE s.kind = "cldr" ->
            JoinGaps(AllTokens(s.items), s.gap.g, s.all, s.pos) \o s.tail
      [] s.kind = "settings" ->
            Concat([k \in 1..Len(s.sets) |-> RenderSetting(s.sets[k]) \o s.after])
            \o s.first
      [] OTHER -> <<Amp>> \o Render(s)

CldrInit ==
    /\ src \in CldrSrcs \cup SettingSrcs \cup BadEscapeSrcs
    /\ text = CldrText(src)
    /\ entry = "none"
    /\ result = Fail(<<>>)
    /\ TableIdle
    /\ KeyIdle
    /\ CmpIdle

CallCldr == Call("cldr", Run(cldr, text))

\* rules on its own, on the text of a whole rule file.
CallRulesOfText == src.kind = "cldr" /\ Call("rules", Run(rules, text))

CallSettings == src.kind = "settings" /\ Call("settings", Run(settings, text))

CldrNext == CallCldr \/ CallRulesOfText \/ CallSettings

SpecCldr == CldrInit /\ [][CldrNext]_vars

(***************************************************************************)
(* Calling the parsers of rules on any text                                *)
(***************************************************************************)
RawChars == {Lt, Star, Eq, Amp, Minus, Quote, Backslash, Space, 97}

\* The texts of test_single_rules and test_sequence.
LtStarText == <<Lt, Star, 97, 98, 99, Minus, 122>>        \* <*abc-z
EqStarText == <<Eq, Star, 97, 98, 99, Minus, 122>>        \* =*abc-z
HelloQuoted ==                                            \* hello'\u1111 \''world
    <<104, 101, 108, 108, 111, Quote, Backslash, 117, 49, 49, 49, 49, Space,
      Backslash, Quote, Quote, 119, 111, 114, 108, 100>>
HelloWorld == <<104, 101, 108, 108, 111, Space, 119, 111, 114, 108, 100>>

RawSrc == [kind |-> "raw"]

RawInit ==
    /\ src = RawSrc
    /\ text \in SeqsUpTo(RawChars, MaxRaw)
                \cup {LtStarText, EqStarText, HelloQuoted, HelloWorld}
    /\ entry = "none"
    /\ result = Fail(<<>>)
    /\ TableIdle
    /\ KeyIdle
    /\ CmpIdle

RawRule == Call("rule", Run(rule, text))

RawMultisequence == Call("multisequence", Run(multisequence, text))

RawSequence == Call("sequence", Run(sequence, text))

RawNext == RawRule \/ RawMultisequence \/ RawSequence

SpecRaw == RawInit /\ [][RawNext]_vars

(***************************************************************************)
(* Parsing a collation element table                                       *)
(***************************************************************************)
SkipLines == {"blank", "comment", "version", "implicit"}
RowLines == {"row_a", "row_a2", "row_aa"}
BadLevelLines == {"two_levels", "four_levels"}
\* Rows without the terminal comment, and rows the text ends in without a
\* newline.
NoCommentLines == {"row_nocomment", "row_bare"}
UnterminatedLines == {"row_nonewline", "row_bare"}
LineNames ==
    SkipLines \cup RowLines \cup BadLevelLines \cup {"junk"}
        \cup NoCommentLines \cup UnterminatedLines

\* The lines a table text is written from:
\*   blank        \n
\*   comment      # c\n
\*   version      @version 9\n
\*   implicit     @implicitweights 9\n
\*   row_a        61;[.1.2.3]#a\n
\*   row_a2       0061 ; [*4.5.6][.0.7.8] # a\n
\*   row_aa       61 301;[.1.2.3]#a\n
\*   two_levels   61;[.1.2]#a\n
\*   four_levels  61;[.1.2.3.4]#a\n
\*   junk         ?\n
\*   row_nocomment  61;[.1.2.3]\n
\*   row_nonewline  61;[.1.2.3]#a
\*   row_bare       61;[.1.2.3]
LineText(name) ==
    CASE name = "blank" -> <<10>>
      [] name = "comment" -> <<35, 32, 99, 10>>
      [] name = "version" -> <<64, 118, 101, 114, 115, 105, 111, 110, 32, 57, 10>>
      [] name = "implicit" -> <<64, 105, 109, 112, 108, 105, 99, 105, 116, 119, 101, 105, 103, 104, 116, 115, 32, 57, 10>>
      [] name = "row_a" -> <<54, 49, 59, 91, 46, 49, 46, 50, 46, 51, 93, 35, 97, 10>>
      [] name = "row_a2" -> <<48, 48, 54, 49, 32, 59, 32, 91, 42, 52, 46, 53, 46, 54, 93, 91, 46, 48, 46, 55, 46, 56, 93, 32, 35, 32, 97, 10>>
      [] name = "row_aa" -> <<54, 49, 32, 51, 48, 49, 59, 91, 46, 49, 46, 50, 46, 51, 93, 35, 97, 10>>
      [] name = "two_levels" -> <<54, 49, 59, 91, 46, 49, 46, 50, 93, 35, 97, 10>>
      [] name = "four_levels" -> <<54, 49, 59, 91, 46, 49, 46, 50, 46, 51, 46, 52, 93, 35, 97, 10>>
      [] name = "junk" -> <<63, 10>>
      [] name = "row_nocomment" -> <<54, 49, 59, 91, 46, 49, 46, 50, 46, 51, 93, 10>>
      [] name = "row_nonewline" -> <<54, 49, 59, 91, 46, 49, 46, 50, 46, 51, 93, 35, 97>>
      [] name = "row_bare" -> <<54, 49, 59, 91, 46, 49, 46, 50, 46, 51, 93>>

\* The key and the elements of a row.
RowKey(name) == IF name = "row_aa" THEN <<LowerA, Acute>> ELSE <<LowerA>>

RowElems(name) ==
    IF name = "row_a2"
    THEN <<CollationElement(TRUE, 4, 5, 6), CollationElement(FALSE, 0, 7, 8)>>
    ELSE <<CollationElement(FALSE, 1, 2, 3)>>

\* The maps a caller hands to the table functions.
PriorMaps == {EmptyMap, [k \in {<<LowerA>>} |-> <<CollationElement(FALSE, 9, 9, 9)>>]}

\* A line without a newline can only be the last one of a text.
TableSrcs ==
    {s \in [kind : {"table"}, lines : SeqsUpTo(LineNames, MaxLines), prior : PriorMaps] :
        \A k \in 1..(Len(s.lines) - 1) : s.lines[k] \notin UnterminatedLines}

TableText(s) == Concat([k \in 1..Len(s.lines) |-> LineText(s.lines[k])])

TableInit ==
    /\ src \in TableSrcs
    /\ text = TableText(src)
    /\ table = src.prior
    /\ entry = "none"
    /\ result = Fail(<<>>)
    /\ KeyIdle
    /\ CmpIdle

\* CollationElementTable::from(text); the map of the caller is not involved.
CallFrom ==
    /\ entry = "none"
    /\ entry' = "from"
    /\ result' = CollationElementTable_from(text)
    /\ UNCHANGED <<table, keyVars, cmpVars, src, text>>

\* parse::table(text, &mut table)
CallParseTable ==
    /\ entry = "none"
    /\ entry' = "parse"
    /\ result' = parse_rs_table(text, table).res
    /\ table' = parse_rs_table(text, table).data
    /\ UNCHANGED <<keyVars, cmpVars, src, text>>

\* parse_cet::table(text, &mut table)
CallParseCetTable ==
    /\ entry = "none"
    /\ entry' = "parse_cet"
    /\ result' = parse_cet_table(text, table).res
    /\ table' = parse_cet_table(text, table).data
    /\ UNCHANGED <<keyVars, cmpVars, src, text>>

TableNext == CallFrom \/ CallParseTable \/ CallParseCetTable

SpecTable == TableInit /\ [][TableNext]_vars

(***************************************************************************)
(* From an LDML document to a Locale: locale.rs                            *)
(***************************************************************************)
Identity(version, language, territory) ==
    [version |-> version, language |-> language, territory |-> territory]

Collation(type, rls) == [type |-> type, rules |-> rls]

Locale(identity, collations) == [identity |-> identity, collations |-> collations]

\* Result<Locale, Error>
LocaleOk(x) == [ok |-> TRUE, val |-> x, err |-> "none"]
LocaleErr(e) == [ok |-> FALSE, val |-> <<>>, err |-> e]

\* [String]::join(" "): a space between the strings.
RECURSIVE join_space(_)
join_space(ss) ==
    IF ss = <<>> THEN <<>>
    ELSE IF Len(ss) = 1 THEN ss[1]
    ELSE ss[1] \o <<Space>> \o join_space(Tail(ss))

\* [String]::join(""): the strings one after the other with the empty
\* separator between them.
RECURSIVE join(_)
join(ss) ==
    IF ss = <<>> THEN <<>>
    ELSE IF Len(ss) = 1 THEN ss[1]
    ELSE ss[1] \o <<>> \o join(Tail(ss))

\* into_iter().map(|c| ..).collect::<Result<Vec<_>, _>>() over the collations
\* cs: the collations parsed in order, or the error of the first one whose
\* rules cldr rejects.
RECURSIVE CollectCollations(_)
CollectCollations(cs) ==
    IF cs = <<>> THEN LocaleOk(<<>>)
    ELSE LET c == Head(cs)
             r == Run(cldr, join(c.rules))
         IN IF ~r.ok THEN LocaleErr("RuleParseError")
            ELSE LET more == CollectCollations(Tail(cs))
                 IN IF more.ok
                    THEN LocaleOk(<<Collation(c.type, r.val)>> \o more.val)
                    ELSE more

\* impl TryFrom<LDML> for Locale
Locale_try_from(ldml) ==
    LET cs == CollectCollations(ldml.collations.collation)
    IN IF cs.ok
       THEN LocaleOk(Locale(Identity(ldml.identity.version.number,
                                     ldml.identity.language.type,
                                     IF ldml.identity.territory = None THEN None
                                     ELSE Some(ldml.identity.territory[1].type)),
                            cs.val))
       ELSE cs

\* LDML::from_str is the XML reader of strong_xml: a document is taken here
\* by what the reader makes of it, an LDML value or None for an error.
LDML_from_str(doc) == doc.read

\* impl TryFrom<&str> for Locale
Locale_try_from_str(doc) ==
    LET l == LDML_from_str(doc)
    IN IF l = None THEN LocaleErr("XMLError") ELSE Locale_try_from(l[1])

\* The <cr> strings of a collation: &a  <b  <  b, in lists of which some
\* parse only when joined, some only in one order, and some not at all.
CrLists ==
    { <<>>,
      << <<Amp, LowerA>> >>,
      << <<Amp, LowerA>>, <<Lt, 98>> >>,
      << <<Lt, 98>>, <<Amp, LowerA>> >>,
      << <<Lt>>, <<98>> >>,
      << <<98>>, <<Lt>> >>,
      << <<Amp, LowerA>>, <<98>> >>,
      << <<Lt>> >>,
      << <<Amp, LowerA>>, <<Lt>>, <<98>> >> }

CollationTypes == {"standard", "search"}

LdmlCollations == [type : CollationTypes, rules : CrLists]

Territories == {None, Some([type |-> "ZA"])}

LDMLs ==
    [identity : [version : {[number |-> "$Revision$"]},
                 language : {[type |-> "af"]},
                 territory : Territories],
     collations : [collation : SeqsUpTo(LdmlCollations, MaxCollations)]]

LdmlSrcs == [kind : {"ldml"}, read : {None} \cup {Some(l) : l \in LDMLs}]

LocaleInit ==
    /\ src \in LdmlSrcs
    /\ text = <<>>
    /\ entry = "none"
    /\ result = LocaleErr("none")
    /\ TableIdle
    /\ KeyIdle
    /\ CmpIdle

\* Locale::try_from(&str)
CallTryFromStr == Call("try_from_str", Locale_try_from_str(src))

\* Locale::try_from(LDML), for a document that was read.
CallTryFromLDML == src.read # None /\ Call("try_from", Locale_try_from(src.read[1]))

LocaleNext == CallTryFromStr \/ CallTryFromLDML

SpecLocale == LocaleInit /\ [][LocaleNext]_vars

(***************************************************************************)
(* Properties of the element stream and of the sort key                    *)
(***************************************************************************)
Weight(e, level) ==
    IF level = 1 THEN e.symbol ELSE IF level = 2 THEN e.diacritic ELSE e.case

RECURSIVE NonZeroWeights(_, _)
NonZeroWeights(elems, level) ==
    IF elems = <<>> THEN <<>>
    ELSE (IF Weight(Head(elems), level) # 0
          THEN <<Weight(Head(elems), level)>> ELSE <<>>)
         \o NonZeroWeights(Tail(elems), level)

\* C1: every level of the key returned by generate_sort_key is the in-order
\* sequence of the non-zero weights of that level of all elements emitted,
\* whatever the weights of an element at the other levels are.
C1_LevelsIndependent ==
    pc = "done" =>
        /\ key.symbols = NonZeroWeights(emitted, 1)
        /\ key.diacritics = NonZeroWeights(emitted, 2)
        /\ key.cases = NonZeroWeights(emitted, 3)

\* The logical ordering key of the specification.
Flat(k) == k.symbols \o <<0>> \o k.diacritics \o <<0>> \o k.cases

\* C2: on keys made by generate_sort_key the derived ordering of SortKey
\* agrees with the lexicographic comparison of
\* primary ++ [0] ++ secondary ++ [0] ++ tertiary.
C2_FlatOrder ==
    cpc # "keys" =>
        \A i, j \in 1..Len(keys) :
            SortKey_cmp(keys[i], keys[j]) = Vec_cmp(Flat(keys[i]), Flat(keys[j]))

\* Two keys where the zero separators decide: the first level of one is a
\* proper prefix of the first level of the other, and its third level is
\* the greater one.
C2_Witness ==
    /\ cpc = "done"
    /\ \E i, j \in 1..Len(keys) :
        /\ keys[i].symbols # keys[j].symbols
        /\ IsPrefix(keys[i].symbols, keys[j].symbols)
        /\ Vec_cmp(keys[i].cases, keys[j].cases) = "Greater"

SingleRow(t, c) == Decompose(c) = <<c>> /\ HasKey(t, <<c>>) /\ Len(t[<<c>>]) = 1

\* x and X share the weights of levels 1 and 2, and x is below X at level 3.
CasePair(t, x, X) ==
    /\ SingleRow(t, x) /\ SingleRow(t, X)
    /\ t[<<x>>][1].symbol = t[<<X>>][1].symbol
    /\ t[<<x>>][1].diacritic = t[<<X>>][1].diacritic
    /\ t[<<x>>][1].case < t[<<X>>][1].case

\* C3: keys with different first levels compare as their first levels do;
\* and with x, X sharing levels 1 and 2, x below X at level 3 and x below y
\* at level 1, the keys order x < X < y; [a, b, C, A, c, B] sorts to
\* [a, A, b, B, c, C].
C3_StrengthDominance ==
    cpc = "done" =>
        /\ \A i, j \in 1..Len(keys) :
                keys[i].symbols # keys[j].symbols =>
                    SortKey_cmp(keys[i], keys[j])
                        = Vec_cmp(keys[i].symbols, keys[j].symbols)
        /\ \A i, j, k \in 1..Len(v) :
                ( /\ Len(v[i]) = 1 /\ Len(v[j]) = 1 /\ Len(v[k]) = 1
                  /\ CasePair(table, v[i][1], v[j][1])
                  /\ SingleRow(table, v[k][1])
                  /\ table[<<v[i][1]>>][1].symbol < table[<<v[k][1]>>][1].symbol )
                => /\ SortKey_cmp(keys[i], keys[j]) = "Less"
                   /\ SortKey_cmp(keys[j], keys[k]) = "Less"
        /\ ( table = LatinTable /\ Len(v) = 6 ) =>
                sorted = <<<<LowerA>>, <<UpperA>>, <<LowerB>>, <<UpperB>>,
                           <<LowerC>>, <<UpperC>>>>

Upper(c) ==
    CASE c = LowerA -> UpperA
      [] c = LowerB -> UpperB
      [] c = LowerC -> UpperC
      [] OTHER -> c

\* u is b with one lower-case letter replaced by its capital.
CaseVariant(b, u) ==
    \E p \in 1..Len(b) : Upper(b[p]) # b[p] /\ u = [b EXCEPT ![p] = Upper(b[p])]

\* w is b with one combining acute accent added behind one of its scalars.
AccentVariant(b, w) ==
    \E p \in 1..Len(nfd(b)) :
        nfd(w) = SubSeq(nfd(b), 1, p) \o <<Acute>>
                    \o SubSeq(nfd(b), p + 1, Len(nfd(b)))

\* The table has no contraction, a row for every scalar of the strings, the
\* accent has weight 0 at level 1 and a weight at level 2, and a letter and
\* its capital differ at level 3 only.
AccentTable(t, strs) ==
    /\ \A k \in DOMAIN t : Len(k) = 1 /\ Len(t[k]) = 1
    /\ HasKey(t, <<Acute>>)
    /\ t[<<Acute>>][1].symbol = 0 /\ t[<<Acute>>][1].diacritic # 0
    /\ \A i \in 1..Len(strs) : \A p \in 1..Len(nfd(strs[i])) :
            /\ HasKey(t, <<nfd(strs[i])[p]>>)
            /\ Upper(nfd(strs[i])[p]) # nfd(strs[i])[p] =>
                    CasePair(t, nfd(strs[i])[p], Upper(nfd(strs[i])[p]))

\* C4: a string that differs from a base string only by a combining accent
\* sorts strictly after the string that differs from the base only in case,
\* and before any string with a greater first level; [cab, dab, Cab, cab
\* with a-acute] sorts to [cab, Cab, cab with a-acute, dab].
C4_AccentAfterCase ==
    cpc = "done" =>
        /\ \A b, u, w \in 1..Len(v) :
                ( /\ CaseVariant(v[b], v[u])
                  /\ AccentVariant(v[b], v[w])
                  /\ AccentTable(table, <<v[b], v[u], v[w]>>) )
                => /\ SortKey_cmp(keys[u], keys[w]) = "Less"
                   /\ \A l \in 1..Len(v) :
                        Vec_cmp(keys[w].symbols, keys[l].symbols) = "Less"
                            => SortKey_cmp(keys[w], keys[l]) = "Less"
        /\ ( table = LatinTable /\ Len(v) = 4 ) =>
                sorted = <<<<LowerC, LowerA, LowerB>>, <<UpperC, LowerA, LowerB>>,
                           <<LowerC, AAcute, LowerB>>, <<LowerD, LowerA, LowerB>>>>

LessEq(o) == o \in {"Less", "Equal"}

Reverse(o) == IF o = "Less" THEN "Greater" ELSE IF o = "Greater" THEN "Less" ELSE o

\* C5: ordering strings by their sort keys over one table is a total order:
\* reflexive, antisymmetric, transitive and total, and strings with the
\* same element stream compare Equal.
C5_TotalOrder ==
    cpc # "keys" =>
        \A i, j, k \in 1..Len(keys) :
            /\ SortKey_cmp(keys[i], keys[i]) = "Equal"
            /\ SortKey_cmp(keys[i], keys[j]) = Reverse(SortKey_cmp(keys[j], keys[i]))
            /\ ( LessEq(SortKey_cmp(keys[i], keys[j]))
                 /\ LessEq(SortKey_cmp(keys[j], keys[i])) )
               => SortKey_cmp(keys[i], keys[j]) = "Equal"
            /\ ( LessEq(SortKey_cmp(keys[i], keys[j]))
                 /\ LessEq(SortKey_cmp(keys[j], keys[k])) )
               => LessEq(SortKey_cmp(keys[i], keys[k]))
            /\ Stream(table, nfd(v[i])) = Stream(table, nfd(v[j]))
               => SortKey_cmp(keys[i], keys[j]) = "Equal"

\* A string strictly below two different strings that have the same
\* non-empty element stream.
C5_Witness ==
    /\ cpc = "done"
    /\ \E i, j, k \in 1..Len(keys) :
        /\ SortKey_cmp(keys[i], keys[j]) = "Less"
        /\ v[j] # v[k]
        /\ Stream(table, nfd(v[j])) # <<>>
        /\ Stream(table, nfd(v[j])) = Stream(table, nfd(v[k]))

\* The scalars of the NFD stream that batch i starts at.
Remaining(i) ==
    SubSeq(nfd(input), Len(Concat(SubSeq(matched, 1, i - 1))) + 1, Len(nfd(input)))

\* C6: every batch is the element list of the longest table key that is a
\* prefix of the NFD scalars remaining when the batch starts, and the
\* batches come in input order.
C6_LongestMatch ==
    /\ \A i \in 1..Len(matched) :
        /\ IsPrefix(matched[i], Remaining(i))
        /\ \A k \in DOMAIN table :
                IsPrefix(k, Remaining(i)) => Len(k) <= Len(matched[i])
    /\ pc \in {"next", "done"} =>
            emitted = Concat([i \in 1..Len(matched) |-> table[matched[i]]])

Valid(d) == d.n <= 4 /\ (d.before = None \/ d.before[1] \in 1..3)

\* The Rule a valid rule as written stands for.
ExpectedRule(d, idx) ==
    CASE d.op = "&" -> SetContext(d.before, SeqOf(idx))
      [] d.op = "=" -> Equal(SeqOf(idx))
      [] d.op = "=*" -> MultiEqual(<<SeqChar(SeqOf(idx)[1])>>)
      [] d.op = "<" ->
            Increment(d.n, IF d.prefix THEN Some(PrefixText) ELSE None,
                      IF d.extension THEN Some(ExtensionText) ELSE None, SeqOf(idx))
      [] OTHER -> MultiIncrement(d.n, <<SeqChar(SeqOf(idx)[1])>>)

\* The number of rules written before the first one the grammar has not.
RECURSIVE ValidPrefix(_)
ValidPrefix(ds) ==
    IF ds = <<>> \/ ~Valid(Head(ds)) THEN 0 ELSE 1 + ValidPrefix(Tail(ds))

\* C8: rule maps every operator to its Rule variant and rules returns the
\* rules in source order; every level is in 1..4 and every before value in
\* 1..3; five or more <, or a before digit outside 1..3, yield no rule.
C8_RuleVariants ==
    src.kind = "rules" =>
        /\ entry = "rules" =>
            /\ result.ok
            /\ result.val = [k \in 1..ValidPrefix(src.items) |->
                                ExpectedRule(src.items[k], k)]
            /\ \A k \in 1..Len(result.val) :
                /\ result.val[k].rule \in {"Increment", "MultiIncrement"} =>
                        result.val[k].level \in 1..4
                /\ result.val[k].rule = "SetContext" =>
                        \A b \in 1..Len(result.val[k].before) :
                            result.val[k].before[b] \in 1..3
        /\ (entry = "rule" /\ src.items # <<>>) =>
            IF Valid(src.items[1])
            THEN result.ok /\ result.val = ExpectedRule(src.items[1], 1)
            ELSE ~result.ok

\* rules returned the <<<<* rule in front of a rule written with five <.
C8_Witness ==
    /\ src.kind = "rules" /\ entry = "rules"
    /\ Len(src.items) = 2
    /\ src.items[2].n = 5
    /\ Len(result.val) = 1
    /\ result.val[1].rule = "MultiIncrement"
    /\ result.val[1].level = 4

\* C9: an increment written as sequence | prefix / extension, each of the
\* two parts optional and the whitespace around | and / optional, parses to
\* an Increment with that sequence, with prefix Some iff the | part is
\* written and extension Some iff the / part is written.
C9_PrefixExtension ==
    ( /\ src.kind = "rules" /\ entry = "rule"
      /\ src.items # <<>>
      /\ src.items[1].op = "<" /\ src.items[1].n <= 4 )
    => /\ result.ok
       /\ result.val.rule = "Increment"
       /\ result.val.sequence = SeqOf(1)
       /\ result.val.prefix =
            (IF src.items[1].prefix THEN Some(PrefixText) ELSE None)
       /\ result.val.extension =
            (IF src.items[1].extension THEN Some(ExtensionText) ELSE None)
       /\ result.rest = RenderFrom(src, 2)

\* An increment with both parts, written without any whitespace.
C9_Witness ==
    /\ src.kind = "rules" /\ entry = "rule"
    /\ src.ws = <<>>
    /\ result.ok
    /\ result.val.rule = "Increment"
    /\ result.val.prefix = Some(PrefixText)
    /\ result.val.extension = Some(ExtensionText)

\* The table of escapes of the specification.
EscapeTable(c) ==
    CASE c = 97 -> 7
      [] c = 98 -> 8
      [] c = 116 -> 9
      [] c = 110 -> 10
      [] c = 118 -> 11
      [] c = 102 -> 12
      [] c = 114 -> 13
      [] c = 101 -> 27
      [] OTHER -> c

ExpectedChar(s) == IF s.esc \in {"u", "U"} THEN s.cp ELSE EscapeTable(s.cp)

\* C10: inside a quoted span \u with 4 hex digits and \U with 8 hex digits
\* give that code point and leave further digits as ordinary characters,
\* \a \b \t \n \v \f \r \e give U+0007 .. U+001B, and \X gives X.
C10_EscapeDecoding ==
    (src.kind = "escape" /\ entry # "none") =>
        /\ result.ok
        /\ IF entry = "escaped_char"
           THEN /\ result.val = ExpectedChar(src)
                /\ result.rest = src.trail \o <<Quote>>
           ELSE /\ result.val = <<ExpectedChar(src)>> \o src.trail
                /\ result.rest = <<>>

\* \u0123 followed by 45 inside quotes: U+0123, then the characters 4 and 5.
C10_Witness ==
    /\ src.kind = "escape" /\ entry = "quoted_chars"
    /\ src.esc = "u" /\ src.cp = 291 /\ src.trail = <<52, 53>>
    /\ result.val = <<291, 52, 53>>

(***************************************************************************)
(* Properties of cldr                                                      *)
(***************************************************************************)
\* C11: a \u or \U escape inside quotes whose hex digits are not the code
\* point of a Unicode scalar value (a surrogate, a value above 10FFFF) makes
\* cldr fail; it is never decoded into other characters.
C11_InvalidEscapeFails ==
    (src.kind = "badescape" /\ entry = "cldr") => ~result.ok

\* The rules a text of CldrSrcs is written from.
ExpectedRules(ds) == [k \in 1..Len(ds) |-> ExpectedRule(ds[k], k)]

\* The gap of the text is the only one and stands in front of the first
\* token or behind the last one.
AtTheEnds(s) == ~s.all /\ s.pos \in {0, Len(AllTokens(s.items))}

\* C12: cldr returns a CollationRules only when the grammar consumes the
\* whole text, whitespace and one comment in front and at the end included;
\* with an unrecognized character or an unclosed quoted span left over it
\* returns an error and no CollationRules.
C12_AllConsuming ==
    (src.kind = "cldr" /\ entry = "cldr") =>
        /\ result.ok =>
            /\ result.rest = <<>>
            /\ src.tail = <<>>
            /\ result.val = CollationRules(<<>>, ExpectedRules(src.items))
        /\ src.tail # <<>> => (~result.ok /\ result.val = <<>>)
        /\ (src.tail = <<>> /\ AtTheEnds(src) /\ src.gap.n <= 1 /\ src.gap.multispace)
                => result.ok

\* Two rules with an unclosed quoted span behind them: an error.
C12_Witness ==
    /\ src.kind = "cldr" /\ entry = "cldr"
    /\ Len(src.items) = 2
    /\ src.tail = <<Quote, 98>>
    /\ ~result.ok

\* The gap of the text stands between two tokens.
BetweenTokens(s) == ~s.all /\ s.pos \in 1..(Len(AllTokens(s.items)) - 1)

\* C13 as stated: with any number of whitespace characters and line
\* comments written between two tokens the text parses to the same rules.
C13_WhitespaceTolerance ==
    ( /\ src.kind = "cldr" /\ entry = "cldr"
      /\ src.tail = <<>> /\ BetweenTokens(src) /\ src.gap.multispace )
    => /\ result.ok
       /\ result.val = CollationRules(<<>>, ExpectedRules(src.items))

\* C13, amended: with any number of spaces, tabs, carriage returns and line
\* feeds and at most one line comment written between two tokens, or
\* between all of them, the text parses to the same rules.
C13_OneCommentPerGap ==
    ( /\ src.kind = "cldr" /\ entry = "cldr"
      /\ src.tail = <<>> /\ src.gap.multispace /\ src.gap.n <= 1 )
    => /\ result.ok
       /\ result.val = CollationRules(<<>>, ExpectedRules(src.items))

\* << b | pq / xy with a comment in every gap.
C13_Witness ==
    /\ src.kind = "cldr" /\ entry = "cldr"
    /\ src.all /\ src.gap.n = 1 /\ src.tail = <<>>
    /\ Len(src.items) = 2
    /\ src.items[2].op = "<" /\ src.items[2].prefix
    /\ result.ok
    /\ result.val.rules[2] = Increment(2, Some(PrefixText), Some(ExtensionText), SeqOf(2))

\* C17: for a text that starts with settings brackets, each followed by
\* whitespace, a comment or nothing, cldr succeeds and returns the settings
\* as (name, value) pairs in source order, duplicates kept.
C17_SettingsInOrder ==
    (src.kind = "settings" /\ entry = "cldr") =>
        /\ result.ok
        /\ result.val.settings = src.sets

(***************************************************************************)
(* Properties of rule, multisequence and sequence on any text             *)
(***************************************************************************)
\* The alternatives of rule, in the order of the source.
RuleAlternatives == <<multi_increment, increment, multi_equal, equal, set_context>>

Orders == {o \in [1..5 -> 1..5] : \A j, k \in 1..5 : o[j] = o[k] => j = k}

\* rule with its alternatives tried in the order o.
RuleInOrder(o) == preceded(comment, alt([k \in 1..5 |-> RuleAlternatives[o[k]]]))

\* C14: the result of rule does not depend on the order in which its five
\* alternatives are tried: behind the leading whitespace and comment at
\* most one alternative succeeds (texts of up to MaxRaw characters), and
\* every order of the alternatives gives the same Rule or the same failure
\* (texts of up to MaxOrderLen characters).
C14_OrderIndependent ==
    (src.kind = "raw" /\ entry = "rule") =>
        /\ Cardinality({k \in 1..5 :
                Run(RuleAlternatives[k], Run(comment, text).rest).ok}) <= 1
        /\ Len(text) <= MaxOrderLen =>
                \A o \in Orders : Run(RuleInOrder(o), text) = result

\* <*a, where multi_increment succeeds and increment, tried first, does not.
C14_Witness ==
    /\ src.kind = "raw" /\ entry = "rule"
    /\ text = <<Lt, Star, 97>>
    /\ result = Ok(<<>>, MultiIncrement(1, <<SeqChar(97)>>))
    /\ ~Run(increment, text).ok

\* The items of a multisequence at the front of i, read from left to right:
\* c1 - c2 is a range, any other unreserved character stands for itself.
RECURSIVE MultisequenceItems(_)
MultisequenceItems(i) ==
    IF i = <<>> \/ is_reserved_char(Head(i)) THEN [val |-> <<>>, rest |-> i]
    ELSE IF Len(i) >= 3 /\ i[2] = Minus /\ ~is_reserved_char(i[3])
         THEN LET m == MultisequenceItems(SubSeq(i, 4, Len(i)))
              IN [val |-> <<SeqRange(i[1], i[3])>> \o m.val, rest |-> m.rest]
         ELSE LET m == MultisequenceItems(Tail(i))
              IN [val |-> <<SeqChar(i[1])>> \o m.val, rest |-> m.rest]

AbcToZ == <<SeqChar(97), SeqChar(98), SeqRange(99, 122)>>

\* C15: multisequence reads a non-empty run of items from left to right, a
\* character followed by - and a character as a Range and any other
\* unreserved character as a Char, quotes and backslashes not interpreted;
\* abc-z gives Char(a), Char(b), Range(c..=z) behind <* and behind =*.
C15_Multisequence ==
    /\ (src.kind = "raw" /\ entry = "multisequence") =>
            IF MultisequenceItems(text).val = <<>> THEN ~result.ok
            ELSE result = Ok(MultisequenceItems(text).rest, MultisequenceItems(text).val)
    /\ (src.kind = "raw" /\ entry = "rule" /\ text = LtStarText) =>
            result = Ok(<<>>, MultiIncrement(1, AbcToZ))
    /\ (src.kind = "raw" /\ entry = "rule" /\ text = EqStarText) =>
            result = Ok(<<>>, MultiEqual(AbcToZ))

\* a-a' : the range a..=a, and the quote is left over.
C15_Witness ==
    /\ src.kind = "raw" /\ entry = "multisequence"
    /\ text = <<97, Minus, 97, Quote>>
    /\ result = Ok(<<Quote>>, <<SeqRange(97, 97)>>)

\* The contents of a quoted span from behind its opening quote on: the
\* characters up to the closing quote, \uHHHH, \UHHHHHHHH and \X decoded.
\* closed says that the closing quote was found.
RECURSIVE SpanContents(_)
SpanContents(i) ==
    IF i = <<>> THEN [closed |-> FALSE, val |-> <<>>, rest |-> i]
    ELSE IF Head(i) = Quote THEN [closed |-> TRUE, val |-> <<>>, rest |-> Tail(i)]
    ELSE IF Head(i) # Backslash
         THEN LET m == SpanContents(Tail(i))
              IN [closed |-> m.closed, val |-> <<Head(i)>> \o m.val, rest |-> m.rest]
    ELSE IF Len(i) < 2 THEN [closed |-> FALSE, val |-> <<>>, rest |-> i]
    ELSE LET n == IF i[2] = 117 THEN 4 ELSE IF i[2] = 85 THEN 8 ELSE 0
             hex == n > 0 /\ Len(i) >= n + 2
                    /\ \A k \in 3..(n + 2) : IsHexDigit(i[k])
             c == IF hex THEN from_str_radix(0, SubSeq(i, 3, n + 2))
                  ELSE EscapeTable(i[2])
             m == SpanContents(SubSeq(i, (IF hex THEN n + 3 ELSE 3), Len(i)))
         IN [closed |-> m.closed, val |-> <<c>> \o m.val, rest |-> m.rest]

\* The runs of unreserved characters and the quoted spans at the front of
\* i, up to the first reserved character that does not open a quoted span
\* with something in it.
RECURSIVE SequenceParts(_)
SequenceParts(i) ==
    IF i = <<>> THEN [val |-> <<>>, rest |-> i]
    ELSE IF ~is_reserved_char(Head(i))
         THEN LET m == SequenceParts(Tail(i))
              IN [val |-> <<Head(i)>> \o m.val, rest |-> m.rest]
    ELSE IF Head(i) = Quote /\ SpanContents(Tail(i)).closed
                            /\ SpanContents(Tail(i)).val # <<>>
         THEN LET m == SequenceParts(SpanContents(Tail(i)).rest)
              IN [val |-> SpanContents(Tail(i)).val \o m.val, rest |-> m.rest]
    ELSE [val |-> <<>>, rest |-> i]

\* C16: sequence returns the runs of unreserved characters and the decoded
\* contents of the quoted spans in order, and stops in front of the first
\* reserved character outside quotes; inside quotes every character but the
\* backslash and the quote stands for itself.
C16_Sequence ==
    /\ (src.kind = "raw" /\ entry = "sequence") =>
            IF SequenceParts(text).val = <<>> THEN ~result.ok
            ELSE result = Ok(SequenceParts(text).rest, SequenceParts(text).val)
    /\ (src.kind = "raw" /\ entry = "sequence" /\ text = HelloQuoted) =>
            result = Ok(<<>>, <<104, 101, 108, 108, 111, 4369, Space, Quote,
                                 119, 111, 114, 108, 100>>)
    /\ (src.kind = "raw" /\ entry = "sequence" /\ text = HelloWorld) =>
            result = Ok(<<Space, 119, 111, 114, 108, 100>>, <<104, 101, 108, 108, 111>>)

\* '<'* : the < of the quoted span, and the * is left over.
C16_Witness ==
    /\ src.kind = "raw" /\ entry = "sequence"
    /\ text = <<Quote, Lt, Quote, Star>>
    /\ result = Ok(<<Star>>, <<Lt>>)

(***************************************************************************)
(* Properties of the table parsers                                         *)
(***************************************************************************)
HasLine(names) == \E k \in 1..Len(src.lines) : src.lines[k] \in names

\* C18: a table text in which a sort-key bracket has fewer or more than
\* three weight fields makes the whole parse fail: no table is returned, by
\* none of the three parsers.
C18_ThreeLevels ==
    (src.kind = "table" /\ entry # "none" /\ HasLine(BadLevelLines)) =>
        /\ ~result.ok
        /\ result.val = <<>>

\* A good row, then a row with four weights: Incomplete, from the second
\* line.
C18_Witness ==
    /\ src.kind = "table" /\ entry = "from"
    /\ src.lines = <<"row_a", "four_levels">>
    /\ result.err = "Incomplete"

\* The map after the rows of names were inserted into data, one after the
\* other.
RECURSIVE RowsInto(_, _)
RowsInto(data, names) ==
    IF names = <<>> THEN data
    ELSE LET n == Head(names)
             k == RowKey(n)
         IN RowsInto(IF n \in RowLines
                     THEN [q \in DOMAIN data \cup {k} |->
                                IF q = k THEN RowElems(n) ELSE data[q]]
                     ELSE data,
                     Tail(names))

\* The index of the last row of the text with the key k, 0 if there is none.
LastRow(k) ==
    LET rows == {j \in 1..Len(src.lines) :
                    src.lines[j] \in RowLines /\ RowKey(src.lines[j]) = k}
    IN IF rows = {} THEN 0 ELSE CHOOSE j \in rows : \A h \in rows : h <= j

\* The map in which the rows of the text end up: the one of the caller, or
\* the table that from returns.
Built == IF entry = "from" THEN result.val ELSE table

\* That map before the call.
Prior == IF entry = "from" THEN EmptyMap ELSE src.prior

\* C19: of several rows with the same code points the last one gives the
\* elements of the key; the keys of the table are those of the rows, and
\* blank lines, comment lines, @version and @implicitweights lines add none.
C19_LastRowWins ==
    ( /\ src.kind = "table" /\ entry # "none"
      /\ src.lines # <<>>
      /\ \A j \in 1..Len(src.lines) : src.lines[j] \in SkipLines \cup RowLines )
    => /\ result.ok
       /\ Built = RowsInto(Prior, src.lines)
       /\ DOMAIN Built =
            DOMAIN Prior \cup {k \in {<<LowerA>>, <<LowerA, Acute>>} : LastRow(k) # 0}
       /\ \A k \in {<<LowerA>>, <<LowerA, Acute>>} :
            LastRow(k) # 0 => Built[k] = RowElems(src.lines[LastRow(k)])

\* Two rows of a, a comment line between them: the table has the second.
C19_Witness ==
    /\ src.kind = "table" /\ entry = "from"
    /\ src.lines = <<"row_a2", "comment", "row_a">>
    /\ result.ok
    /\ result.val = [k \in {<<LowerA>>} |-> <<CollationElement(FALSE, 1, 2, 3)>>]

\* C20: when the parse of a table fails, nothing of the rows parsed before
\* the failing line is left: from returns the error alone, and the table
\* functions of parse.rs and parse_cet.rs leave the map of the caller as it
\* was.
C20_NoPartialTable ==
    (src.kind = "table" /\ entry # "none" /\ ~result.ok) =>
        /\ result.val = <<>>
        /\ entry # "from" => table = src.prior

\* C21: a table text with a data row that has no # comment, or that ends in
\* a data row without a newline after it, is rejected by
\* CollationElementTable::from and by table of parse_cet.rs.
C21_RowsEndInCommentAndNewline ==
    ( /\ src.kind = "table" /\ entry \in {"from", "parse_cet"}
      /\ HasLine(NoCommentLines \cup UnterminatedLines) )
    => ~result.ok

(***************************************************************************)
(* Properties of the conversion to a Locale                                *)
(***************************************************************************)
\* The rule text of the k-th collation of the document: its strings one
\* after the other.
RuleText(l, k) == Concat(l.collations.collation[k].rules)

NumCollations(l) == Len(l.collations.collation)

\* C22: Locale::try_from parses for every collation the concatenation of
\* its rule strings, in order and with nothing between them, and returns
\* the collations in the order of the input, each with its type; when the
\* rules of one collation do not parse the result is RuleParseError and no
\* Locale, and when the XML cannot be read it is XMLError.
C22_TryFrom ==
    (src.kind = "ldml" /\ entry # "none") =>
        IF src.read = None
        THEN result = LocaleErr("XMLError")
        ELSE LET l == src.read[1]
             IN IF \A k \in 1..NumCollations(l) : Run(cldr, RuleText(l, k)).ok
                THEN /\ result.ok
                     /\ result.val.identity.version = l.identity.version.number
                     /\ result.val.identity.language = l.identity.language.type
                     /\ result.val.identity.territory =
                            IF l.identity.territory = None THEN None
                            ELSE Some(l.identity.territory[1].type)
                     /\ Len(result.val.collations) = NumCollations(l)
                     /\ \A k \in 1..NumCollations(l) :
                            /\ result.val.collations[k].type =
                                    l.collations.collation[k].type
                            /\ result.val.collations[k].rules =
                                    Run(cldr, RuleText(l, k)).val
                ELSE result = LocaleErr("RuleParseError")

\* < and b make <b, &a and b make &ab: two strings each that parse as one
\* rule, in the order of the document.
C22_Witness ==
    /\ src.kind = "ldml" /\ entry = "try_from_str"
    /\ src.read # None
    /\ src.read[1].collations.collation =
            << [type |-> "standard", rules |-> << <<Lt>>, <<98>> >>],
               [type |-> "search", rules |-> << <<Amp, LowerA>>, <<98>> >>] >>
    /\ result.ok
    /\ result.val.collations =
            << Collation("standard",
                         CollationRules(<<>>, <<Increment(1, None, None, <<98>>)>>)),
               Collation("search",
                         CollationRules(<<>>, <<SetContext(None, <<LowerA, 98>>)>>)) >>

\* A collation that does not parse after one that does: RuleParseError, and
\* nothing of the first.
C22_WitnessError ==
    /\ src.kind = "ldml" /\ entry = "try_from_str"
    /\ src.read # None
    /\ src.read[1].collations.collation =
            << [type |-> "standard", rules |-> << <<Amp, LowerA>> >>],
               [type |-> "search", rules |-> << <<98>>, <<Lt>> >>] >>
    /\ result = LocaleErr("RuleParseError")

(***************************************************************************)
(* Invariants of the key and progress of the element stream               *)
(***************************************************************************)
NoZero(ws) == \A i \in 1..Len(ws) : ws[i] # 0

C24_StreamProgress ==
    pc # "idle" =>
        /\ \A i \in 1..Len(matched) : matched[i] # <<>>
        /\ Len(matched) <= Len(nfd(input))
        /\ IsPrefix(Concat(matched), nfd(input))
        /\ pc # "done" => Concat(matched) \o normalized = nfd(input)
        /\ (pc # "done" /\ matched # <<>> /\ normalized # <<>>) =>
                ~HasKey(table, Append(matched[Len(matched)], Head(normalized)))
        /\ \A i \in 1..Len(matched) :
                /\ matched[i] = SubSeq(nfd(input),
                                       Len(Concat(SubSeq(matched, 1, i - 1))) + 1,
                                       Len(Concat(SubSeq(matched, 1, i))))
                /\ HasKey(table, matched[i])

\* a with the acute accent, then b: the batch of a-acute took two scalars
\* and left b, which did not extend it, to start the second batch.
C24_Witness ==
    /\ pc = "done"
    /\ input = <<AAcute, LowerB>>
    /\ matched = << <<LowerA, Acute>>, <<LowerB>> >>
    /\ normalized = <<>>

====
